---- MODULE Spec2Model ----
(***************************************************************************)
(* Model of the ink canvas controller (src/src/inkCanvas.ts) driven by the *)
(* page wiring (src/unnamed/part_000).  A path mesh is identified by its   *)
(* creation number: the n-th PathMesh constructed is meshes[n].            *)
(***************************************************************************)
EXTENDS Integers, Sequences, FiniteSets

\* ------------------------------------------------------------------------
\* Bounds of the model
\* ------------------------------------------------------------------------
\* number of calls made on the canvas in one run
MaxCalls == 8

\* ------------------------------------------------------------------------
\* Values
\* ------------------------------------------------------------------------
\* _currentPath = null
Null == 0

\* local coordinates a pick can return
Coords == {<<0, 0>>, <<1, 0>>}
NoPoint == <<>>

\* results of scene.pick: a miss, or a hit with its local coordinates
Picks == {[hit |-> FALSE, point |-> NoPoint]} \cup {[hit |-> TRUE, point |-> p] : p \in Coords}

\* sizes set by the size buttons of the page
PageSizes == {1, 5, 15}
\* colours set by the colour buttons of the page
PageColors == {"black", "white"}

\* _sizeScaleFactor = 0.01, in hundredths
sizeScaleFactor == 1
\* options.debounce and options.roundness in debug mode
debugDebounce == 1
debugRoundness == 8

VARIABLES
    debug,        \* _debug
    paths,        \* _paths: the undo list, most recent last
    redoPaths,    \* _redoPaths: the redo list, most recent last
    currentPath,  \* _currentPath: the path being drawn, or Null
    currentSize,  \* _currentSize
    currentColor, \* _currentColor
    currentMode,  \* _currentMode
    meshes,       \* every PathMesh constructed so far, by creation number
    lastCall,     \* the last call made on the canvas and its pick result
    ret,          \* what that call returned
    calls,        \* number of calls made so far
    scenario,     \* the calls made so far, while they follow ScenarioSteps
    roundTrip     \* progress of the latest endPath; undo; redo sequence

vars == <<debug, paths, redoPaths, currentPath, currentSize, currentColor,
          currentMode, meshes, lastCall, ret, calls, scenario, roundTrip>>

\* ------------------------------------------------------------------------
\* Helpers
\* ------------------------------------------------------------------------
Range(s) == {s[i] : i \in 1..Len(s)}

\* Array.prototype.pop: the array without its last element
Pop(s) == SubSeq(s, 1, Len(s) - 1)
\* the element Array.prototype.pop returns; popping an empty array yields
\* no path
Top(s) == IF Len(s) = 0 THEN Null ELSE s[Len(s)]

\* squared distance of two local points
Dist2(p, q) == (p[1] - q[1]) * (p[1] - q[1]) + (p[2] - q[2]) * (p[2] - q[2])

NoPick == [hit |-> FALSE, point |-> NoPoint]

\* The scenario of two completed strokes followed by undo, undo, redo
ScenarioSteps == <<"startPath", "endPath", "startPath", "endPath", "undo", "undo", "redo">>
OffScenario == <<"off">>

\* the scenario after one more call: it advances on its next step (a
\* startPath step is one whose pick hits), stays while a stroke being
\* drawn is extended, and is left by any other call
ScenarioAfter(op, pick) ==
    IF /\ scenario # OffScenario
       /\ Len(scenario) < Len(ScenarioSteps)
       /\ op = ScenarioSteps[Len(scenario) + 1]
       /\ (op = "startPath" => pick.hit)
    THEN Append(scenario, op)
    ELSE IF /\ op = "extendPath"
            /\ scenario # OffScenario
            /\ scenario # <<>>
            /\ scenario[Len(scenario)] = "startPath"
         THEN scenario
         ELSE OffScenario

\* The sequence endPath; undo; redo after one more call.  It starts with an
\* endPath that commits the current path; the undo that follows records the
\* lists and the meshes as endPath left them; any other call ends it.
NoRoundTrip == [stage |-> "none", ended |-> <<>>]

RoundTripAfter(op, acted) ==
    IF op = "endPath" /\ acted
    THEN [stage |-> "ended", ended |-> <<>>]
    ELSE IF op = "undo" /\ roundTrip.stage = "ended"
    THEN [stage |-> "undone", ended |-> <<paths, redoPaths, meshes>>]
    ELSE IF op = "redo" /\ roundTrip.stage = "undone"
    THEN [stage |-> "redone", ended |-> roundTrip.ended]
    ELSE NoRoundTrip

\* One call of the page on the canvas: op is the method, pick what
\* scene.pick returns during the call, acted whether the call got past its
\* guards
Call(op, pick, acted) ==
    /\ calls < MaxCalls
    /\ calls' = calls + 1
    /\ lastCall' = [op |-> op, hit |-> pick.hit, idle |-> (currentPath = Null),
                    acted |-> acted]
    /\ scenario' = ScenarioAfter(op, pick)
    /\ roundTrip' = RoundTripAfter(op, acted)

\* ------------------------------------------------------------------------
\* PathMesh and the scene
\* ------------------------------------------------------------------------
\* _createPath: the options of the new path (debounce and roundness are set
\* in debug mode only) and its construction.  A new mesh belongs to the
\* scene it is constructed in.
_createPathAlwaysDebounced(x, y) ==
    [points   |-> << <<x, y>> >>,
     options  |-> [radius    |-> currentSize * sizeScaleFactor,
                   debounce  |-> debugDebounce,
                   roundness |-> debugRoundness],
     material |-> <<>>,
     attached |-> TRUE,
     disposed |-> 0]

_createPath(x, y) ==
    [points   |-> << <<x, y>> >>,
     options  |-> IF debug
                  THEN [radius    |-> currentSize * sizeScaleFactor,
                        debounce  |-> debugDebounce,
                        roundness |-> debugRoundness]
                  ELSE [radius |-> currentSize * sizeScaleFactor],
     material |-> <<>>,
     attached |-> TRUE,
     disposed |-> 0]

\* PathMesh construction rejects a non-positive radius and a negative
\* roundness or debounce (InvalidBrushParameter)
anyOptions(o) == TRUE
validOptions(o) ==
    /\ o.radius > 0
    /\ "debounce" \in DOMAIN o => o.debounce >= 0
    /\ "roundness" \in DOMAIN o => o.roundness >= 0

\* _createPathMaterial: the material for the current inking setup
_createPathMaterial ==
    IF debug THEN <<"debugMaterial">>
    ELSE IF currentMode = "pen" THEN <<"pathMaterial", currentColor>>
    ELSE <<"rainbowMaterial">>

\* PathMesh.addPointToPath: a sample closer to the last accepted point than
\* the debounce distance is dropped
Accepts(m, p) ==
    \/ "debounce" \notin DOMAIN m.options
    \/ Dist2(p, m.points[Len(m.points)]) >= m.options.debounce * m.options.debounce

addPointToPath(m, p) ==
    IF Accepts(m, p) THEN [m EXCEPT !.points = Append(@, p)] ELSE m

\* scene.removeMesh / scene.addMesh
removeMesh(ms, id) == IF id \in DOMAIN ms THEN [ms EXCEPT ![id].attached = FALSE] ELSE ms
addMesh(ms, id) == IF id \in DOMAIN ms THEN [ms EXCEPT ![id].attached = TRUE] ELSE ms

\* Mesh.dispose: releases the mesh and takes it out of the scene
dispose(ms, id) == [ms EXCEPT ![id].attached = FALSE, ![id].disposed = @ + 1]

\* ------------------------------------------------------------------------
\* Initial state: the canvas after its constructor
\* ------------------------------------------------------------------------
Init ==
    /\ debug \in BOOLEAN
    /\ paths = <<>>
    /\ redoPaths = <<>>
    /\ currentPath = Null
    /\ currentSize = 5
    /\ currentColor = "white"
    /\ currentMode = "pen"
    /\ meshes = <<>>
    /\ lastCall = [op |-> "constructor", hit |-> FALSE, idle |-> TRUE, acted |-> TRUE]
    /\ ret = "undefined"
    /\ calls = 0
    /\ scenario = <<>>
    /\ roundTrip = NoRoundTrip


\* ------------------------------------------------------------------------
\* Operations of InkCanvas
\* ------------------------------------------------------------------------
settings == <<debug, currentSize, currentColor, currentMode>>

\* startPath returns at once while a path is being drawn
startPathNeverBusy == FALSE
startPathBusy == currentPath # Null

\* startPath empties the redo list before it picks
startPathKeepsRedo == redoPaths
startPathRedo == <<>>

\* the path _createPath would construct for this pick is accepted
Constructs(pick) == pick.hit /\ validOptions(_createPath(pick.point[1], pick.point[2]).options)

\* startPath: on a hit the new path, with its material, becomes the current
\* path and true is returned; on a miss false is returned.  When the
\* construction of the path fails the call ends there with the exception.
startPath(pick) ==
    /\ Call("startPath", pick, ~startPathBusy /\ Constructs(pick))
    /\ IF startPathBusy
       THEN /\ ret' = "undefined"
            /\ UNCHANGED <<paths, redoPaths, currentPath, meshes, settings>>
       ELSE /\ redoPaths' = startPathRedo
            /\ IF Constructs(pick)
               THEN /\ meshes' = Append(meshes,
                          [_createPath(pick.point[1], pick.point[2])
                              EXCEPT !.material = _createPathMaterial])
                    /\ currentPath' = Len(meshes) + 1
                    /\ ret' = "true"
               ELSE /\ ret' = IF pick.hit THEN "InvalidBrushParameter" ELSE "false"
                    /\ UNCHANGED <<currentPath, meshes>>
            /\ UNCHANGED <<paths, settings>>

\* (an extendPath that cuts the current path back to its seed on a miss)
extendPathCutsOnMiss(pick) ==
    /\ Call("extendPath", pick, currentPath # Null /\ pick.hit)
    /\ IF currentPath = Null
       THEN /\ ret' = "undefined"
            /\ UNCHANGED meshes
       ELSE IF pick.hit
            THEN /\ meshes' = [meshes EXCEPT ![currentPath] = addPointToPath(@, pick.point)]
                 /\ ret' = "true"
            ELSE /\ ret' = "false"
                 /\ meshes' = [meshes EXCEPT ![currentPath].points = <<@[1]>>]
    /\ UNCHANGED <<paths, redoPaths, currentPath, settings>>

\* extendPath: nothing without a current path; on a hit the point is handed
\* to the current path and true is returned, on a miss false
extendPath(pick) ==
    /\ Call("extendPath", pick, currentPath # Null /\ pick.hit)
    /\ IF currentPath = Null
       THEN /\ ret' = "undefined"
            /\ UNCHANGED meshes
       ELSE IF pick.hit
            THEN /\ meshes' = [meshes EXCEPT ![currentPath] = addPointToPath(@, pick.point)]
                 /\ ret' = "true"
            ELSE /\ ret' = "false"
                 /\ UNCHANGED meshes
    /\ UNCHANGED <<paths, redoPaths, currentPath, settings>>

\* endPath pushes the current path on the undo list and clears it
endPathKeepsCurrent == currentPath
endPathCurrent == Null

endPath ==
    /\ Call("endPath", NoPick, currentPath # Null)
    /\ ret' = "undefined"
    /\ IF currentPath = Null
       THEN UNCHANGED <<paths, currentPath>>
       ELSE /\ paths' = Append(paths, currentPath)
            /\ currentPath' = endPathCurrent
    /\ UNCHANGED <<redoPaths, meshes, settings>>

\* undo: without a current path, the latest path of the undo list moves to
\* the redo list and is removed from the scene
undoGuardAnyState == Len(paths) > 0
undoGuard == currentPath = Null /\ Len(paths) > 0

undoKeepsInScene(ms, path) == ms
undoDisposes(ms, path) == dispose(ms, path)
undoScene(ms, path) == removeMesh(ms, path)

undo ==
    /\ Call("undo", NoPick, undoGuard)
    /\ ret' = "undefined"
    /\ IF undoGuard
       THEN /\ paths' = Pop(paths)
            /\ redoPaths' = Append(redoPaths, Top(paths))
            /\ meshes' = undoScene(meshes, Top(paths))
       ELSE UNCHANGED <<paths, redoPaths, meshes>>
    /\ UNCHANGED <<currentPath, settings>>

\* redo: without a current path, the latest path of the redo list moves
\* back to the undo list and is added to the scene
redoGuardOtherList == currentPath = Null /\ Len(paths) > 0
redoGuard == currentPath = Null /\ Len(redoPaths) > 0

redoOldest(s) == s[1]
redoPath(s) == Top(s)

redoForgetsScene(ms, path) == ms
redoScene(ms, path) == addMesh(ms, path)

redo ==
    /\ Call("redo", NoPick, redoGuard)
    /\ ret' = "undefined"
    /\ IF redoGuard
       THEN /\ redoPaths' = Pop(redoPaths)
            /\ paths' = Append(paths, redoPath(redoPaths))
            /\ meshes' = redoScene(meshes, redoPath(redoPaths))
       ELSE UNCHANGED <<paths, redoPaths, meshes>>
    /\ UNCHANGED <<currentPath, settings>>

\* clear: without a current path, pops and disposes the paths of the undo
\* list until it is empty
clearOnce(ps, ms) == [paths |-> Pop(ps), meshes |-> dispose(ms, Top(ps))]
clearKeepsList(ps, ms) ==
    [paths  |-> ps,
     meshes |-> [id \in DOMAIN ms |->
                   IF id \in Range(ps)
                   THEN [ms[id] EXCEPT !.attached = FALSE, !.disposed = @ + 1]
                   ELSE ms[id]]]
RECURSIVE clearLoop(_, _)
clearLoop(ps, ms) ==
    IF Len(ps) = 0 THEN [paths |-> ps, meshes |-> ms]
    ELSE clearLoop(Pop(ps), dispose(ms, Top(ps)))

clearGuard == currentPath = Null /\ Len(paths) > 0

clear ==
    /\ Call("clear", NoPick, clearGuard)
    /\ ret' = "undefined"
    /\ IF clearGuard
       THEN /\ paths' = clearLoop(paths, meshes).paths
            /\ meshes' = clearLoop(paths, meshes).meshes
       ELSE UNCHANGED <<paths, meshes>>
    /\ UNCHANGED <<redoPaths, currentPath, settings>>

\* changeSize, changeColor, usePen: the brush settings
\* (a changeSize that also resizes the paths already created)
changeSizeResizesPaths(size) ==
    /\ Call("changeSize", NoPick, TRUE)
    /\ ret' = "undefined"
    /\ currentSize' = size
    /\ meshes' = [id \in DOMAIN meshes |->
                    [meshes[id] EXCEPT !.options.radius = size * sizeScaleFactor]]
    /\ UNCHANGED <<debug, paths, redoPaths, currentPath, currentColor, currentMode>>

\* (a changeSize that adds to the current size)
changeSizeAdds(size) ==
    /\ Call("changeSize", NoPick, TRUE)
    /\ ret' = "undefined"
    /\ currentSize' = currentSize + size
    /\ UNCHANGED <<debug, paths, redoPaths, currentPath, currentColor, currentMode, meshes>>

changeSize(size) ==
    /\ Call("changeSize", NoPick, TRUE)
    /\ ret' = "undefined"
    /\ currentSize' = size
    /\ UNCHANGED <<debug, paths, redoPaths, currentPath, currentColor, currentMode, meshes>>

usePenMode == "pen"

usePen ==
    /\ Call("usePen", NoPick, TRUE)
    /\ ret' = "undefined"
    /\ currentMode' = usePenMode
    /\ UNCHANGED <<debug, paths, redoPaths, currentPath, currentSize, currentColor, meshes>>

changeColor(color) ==
    /\ Call("changeColor", NoPick, TRUE)
    /\ ret' = "undefined"
    /\ currentColor' = color
    /\ currentMode' = usePenMode
    /\ UNCHANGED <<debug, paths, redoPaths, currentPath, currentSize, meshes>>

\* getLastIndicesAndPositions: logs the vertex data of this._paths[0]; with
\* an empty undo list this._paths[0] is undefined and reading its geometry
\* throws a TypeError
firstPath == IF Len(paths) = 0 THEN Null ELSE paths[1]

getLastIndicesAndPositions ==
    /\ Call("getLastIndicesAndPositions", NoPick, firstPath # Null)
    /\ ret' = IF firstPath = Null THEN "TypeError" ELSE "undefined"
    /\ UNCHANGED <<paths, redoPaths, currentPath, meshes, settings>>

\* ------------------------------------------------------------------------
\* The page: pointer, keyboard and button events call the canvas
\* ------------------------------------------------------------------------
PointerDown == \E pick \in Picks : startPath(pick)
PointerMove == \E pick \in Picks : extendPath(pick)
PointerUp == endPath
UndoEvent == undo
RedoEvent == redo
ClearEvent == clear
SizeButton == \E size \in PageSizes : changeSize(size)
ColorButton == \E color \in PageColors : changeColor(color)

Next ==
    \/ PointerDown
    \/ PointerMove
    \/ PointerUp
    \/ UndoEvent
    \/ RedoEvent
    \/ ClearEvent
    \/ SizeButton
    \/ ColorButton

Spec == Init /\ [][Next]_vars

\* ------------------------------------------------------------------------
\* Any caller of the canvas: changeSize takes any number and usePen can be
\* called on its own
\* ------------------------------------------------------------------------
ApiSizes == PageSizes \cup {0, -1}

ApiChangeSize == \E size \in ApiSizes : changeSize(size)
ApiUsePen == usePen
ApiGetLast == getLastIndicesAndPositions

NextApi ==
    \/ PointerDown
    \/ PointerMove
    \/ PointerUp
    \/ UndoEvent
    \/ RedoEvent
    \/ ClearEvent
    \/ ApiChangeSize
    \/ ColorButton
    \/ ApiUsePen
    \/ ApiGetLast

SpecApi == Init /\ [][NextApi]_vars

\* ------------------------------------------------------------------------
\* The page with a pointer whose every press is followed by a release: one
\* call of the run is kept for the release, and the release is not put off
\* for ever
\* ------------------------------------------------------------------------
ReleaseKept == calls + 1 < MaxCalls

NextLive ==
    \/ ReleaseKept /\ PointerDown
    \/ ReleaseKept /\ PointerMove
    \/ PointerUp
    \/ ReleaseKept /\ UndoEvent
    \/ ReleaseKept /\ RedoEvent
    \/ ReleaseKept /\ ClearEvent
    \/ ReleaseKept /\ SizeButton
    \/ ReleaseKept /\ ColorButton

SpecLive == Init /\ [][NextLive]_vars /\ WF_vars(PointerUp)

\* ------------------------------------------------------------------------
\* Vocabulary of the properties
\* ------------------------------------------------------------------------
\* the paths the canvas holds: the current path and both lists
Held(id) == id = currentPath \/ id \in Range(paths) \cup Range(redoPaths)

Created == 1..Len(meshes)

\* s is t without its last element
IsPopOf(s, t) ==
    /\ Len(t) > 0
    /\ Len(s) = Len(t) - 1
    /\ \A i \in 1..Len(s) : s[i] = t[i]

\* s is t with x pushed at its end
IsPushOf(s, t, x) ==
    /\ Len(s) = Len(t) + 1
    /\ s[Len(s)] = x
    /\ \A i \in 1..Len(t) : s[i] = t[i]

\* ------------------------------------------------------------------------
\* Properties
\* ------------------------------------------------------------------------
\* a step that is a call of op made without a current path / with one
IdleCall(op) == lastCall'.op = op /\ currentPath = Null
DrawingCall(op) == lastCall'.op = op /\ currentPath # Null

\* C1: startPath called in Idle when the pick misses leaves the undo list,
\* the redo list and the current path as they were, and returns false.
C1_StartPathMissChangesNothing ==
    [][(IdleCall("startPath") /\ ~lastCall'.hit)
         => /\ paths' = paths
            /\ redoPaths' = redoPaths
            /\ currentPath' = currentPath
            /\ ret' = "false"]_vars

\* C2 as stated: after two completed strokes and undo, undo, redo, the undo
\* list and the redo list hold one path each and the path redo put back in
\* the undo list and the scene is the second one created.
C2_RedoRestoresSecondCreated ==
    scenario = ScenarioSteps
        => /\ Len(paths) = 1
           /\ Len(redoPaths) = 1
           /\ paths[1] = 2
           /\ meshes[2].attached

\* C2 as amended: after two completed strokes and undo, undo, redo, the
\* undo list and the redo list hold one path each; the path redo put back
\* in the undo list and the scene is the first one created (the one undone
\* last) and the second one created stays in the redo list, out of the
\* scene.
C2_RedoRestoresFirstCreated ==
    scenario = ScenarioSteps
        => /\ Len(paths) = 1
           /\ Len(redoPaths) = 1
           /\ paths[1] = 1
           /\ meshes[1].attached
           /\ redoPaths[1] = 2
           /\ ~meshes[2].attached

C2_ScenarioDone ==
    /\ scenario = ScenarioSteps
    /\ lastCall.op = "redo"
    /\ lastCall.acted
    /\ Len(meshes) = 2

\* C3: a path the canvas stops holding (it is no longer the current path nor
\* in the undo list nor in the redo list) is disposed by the call that drops
\* it.
C3_DroppedPathIsDisposed ==
    [][\A id \in Created :
          (Held(id) /\ ~Held(id)') => meshes'[id].disposed > 0]_vars

\* C4: a startPath call in Idle whose pick hits returns true, leaves the
\* redo list empty, creates exactly one new path, which is the current path,
\* and leaves the undo list and the paths created before unchanged.
C4_StartPathHitCreatesCurrent ==
    [][(IdleCall("startPath") /\ lastCall'.hit)
         => /\ ret' = "true"
            /\ redoPaths' = <<>>
            /\ Len(meshes') = Len(meshes) + 1
            /\ \A id \in Created : meshes'[id] = meshes[id]
            /\ currentPath' = Len(meshes')
            /\ paths' = paths]_vars

C4_StartedAfterUndo ==
    /\ lastCall.op = "startPath"
    /\ lastCall.idle
    /\ lastCall.hit
    /\ ret = "true"
    /\ currentPath = Len(meshes)
    /\ Len(paths) > 0
    /\ \E id \in Created : ~Held(id)

\* C5: startPath called while a path is being drawn creates no path, keeps
\* the same current path and leaves both lists unchanged, whatever the pick.
C5_StartPathWhileDrawingIsNoOp ==
    [][DrawingCall("startPath")
         => /\ meshes' = meshes
            /\ currentPath' = currentPath
            /\ paths' = paths
            /\ redoPaths' = redoPaths]_vars

C5_StartedTwice ==
    /\ lastCall.op = "startPath"
    /\ ~lastCall.idle
    /\ lastCall.hit
    /\ currentPath # Null
    /\ Len(paths) > 0

\* C6: in every reachable state at most one path is in progress, and that
\* path is in neither the undo list nor the redo list.
C6_CurrentPathOutsideLists ==
    /\ currentPath = Null \/ currentPath \in Created
    /\ currentPath # Null
          => currentPath \notin Range(paths) \cup Range(redoPaths)

C6_DrawingWithHistory ==
    /\ currentPath # Null
    /\ Len(paths) > 1
    /\ lastCall.op = "extendPath"

\* C7: undo, redo and clear called while a path is being drawn change
\* neither list, nor the current path, nor any path's scene membership or
\* disposal.
C7_HistoryCallsWhileDrawingAreNoOps ==
    [][(DrawingCall("undo") \/ DrawingCall("redo") \/ DrawingCall("clear"))
         => /\ paths' = paths
            /\ redoPaths' = redoPaths
            /\ currentPath' = currentPath
            /\ meshes' = meshes]_vars

C7_UndoWhileDrawing ==
    /\ lastCall.op \in {"undo", "redo", "clear"}
    /\ ~lastCall.idle
    /\ currentPath # Null
    /\ Len(paths) > 0

\* C8: undo called in Idle with a non-empty undo list removes exactly the
\* last path of the undo list, pushes that path at the end of the redo list,
\* takes it out of the scene, and changes nothing else of any path.
C8_UndoMovesLastToRedo ==
    [][(IdleCall("undo") /\ Len(paths) > 0)
         => /\ IsPopOf(paths', paths)
            /\ IsPushOf(redoPaths', redoPaths, paths[Len(paths)])
            /\ ~meshes'[paths[Len(paths)]].attached
            /\ Len(meshes') = Len(meshes)
            /\ \A id \in Created :
                  meshes'[id] = IF id = paths[Len(paths)]
                                THEN [meshes[id] EXCEPT !.attached = FALSE]
                                ELSE meshes[id]
            /\ currentPath' = currentPath]_vars

C8_UndoneWithOthersLeft ==
    /\ lastCall.op = "undo"
    /\ lastCall.acted
    /\ Len(paths) > 0
    /\ Len(redoPaths) > 1
    /\ ~meshes[redoPaths[Len(redoPaths)]].attached

\* C9: redo called in Idle with a non-empty redo list removes exactly the
\* last path of the redo list, pushes that path at the end of the undo list,
\* puts it back in the scene, and changes nothing else of any path.
C9_RedoMovesLastToPaths ==
    [][(IdleCall("redo") /\ Len(redoPaths) > 0)
         => /\ IsPopOf(redoPaths', redoPaths)
            /\ IsPushOf(paths', paths, redoPaths[Len(redoPaths)])
            /\ meshes'[redoPaths[Len(redoPaths)]].attached
            /\ Len(meshes') = Len(meshes)
            /\ \A id \in Created :
                  meshes'[id] = IF id = redoPaths[Len(redoPaths)]
                                THEN [meshes[id] EXCEPT !.attached = TRUE]
                                ELSE meshes[id]
            /\ currentPath' = currentPath]_vars

C9_RedoneWithOthersLeft ==
    /\ lastCall.op = "redo"
    /\ lastCall.acted
    /\ Len(paths) > 1
    /\ meshes[paths[Len(paths)]].attached

\* C10: clear called in Idle with N >= 1 paths in the undo list ends with
\* the undo list empty, with dispose called exactly once on each of these N
\* paths and on no other path, and with the redo list unchanged.
C10_ClearDisposesEachOnce ==
    [][(IdleCall("clear") /\ Len(paths) > 0)
         => /\ paths' = <<>>
            /\ redoPaths' = redoPaths
            /\ Len(meshes') = Len(meshes)
            /\ \A id \in Range(paths) :
                  meshes[id].disposed = 0 /\ meshes'[id].disposed = 1
            /\ \A id \in Created \ Range(paths) :
                  meshes'[id].disposed = meshes[id].disposed]_vars

C10_ClearedSeveral ==
    /\ lastCall.op = "clear"
    /\ lastCall.acted
    /\ paths = <<>>
    /\ Len(redoPaths) > 0
    /\ Cardinality({id \in Created : meshes[id].disposed = 1}) > 1
    /\ \A id \in Range(redoPaths) : meshes[id].disposed = 0

\* C11: starting with a path being drawn, endPath; undo; redo ends with the
\* same path last in the undo list and in the scene, exactly as endPath
\* left it (points included), and with the undo list and the redo list as
\* they were right after endPath.
C11_EndUndoRedoRoundTrip ==
    roundTrip.stage = "redone"
        => LET endedPaths == roundTrip.ended[1]
               endedRedo == roundTrip.ended[2]
               endedMeshes == roundTrip.ended[3]
               path == endedPaths[Len(endedPaths)]
           IN  /\ Len(paths) > 0
               /\ paths[Len(paths)] = path
               /\ meshes[path].attached
               /\ meshes[path].points = endedMeshes[path].points
               /\ meshes[path] = endedMeshes[path]
               /\ paths = endedPaths
               /\ redoPaths = endedRedo

C11_RoundTripDone ==
    /\ roundTrip.stage = "redone"
    /\ lastCall.op = "redo"
    /\ lastCall.acted
    /\ Len(paths) > 0
    /\ Len(meshes[paths[Len(paths)]].points) > 1

\* C12: endPath with a path being drawn pushes that path at the end of the
\* undo list, clears the current path and leaves the redo list unchanged;
\* endPath in Idle changes nothing.
C12_EndPathCommitsCurrent ==
    [][/\ DrawingCall("endPath")
            => /\ IsPushOf(paths', paths, currentPath)
               /\ currentPath' = Null
               /\ redoPaths' = redoPaths
               /\ meshes' = meshes
       /\ IdleCall("endPath")
            => /\ paths' = paths
               /\ redoPaths' = redoPaths
               /\ currentPath' = currentPath
               /\ meshes' = meshes]_vars

C12_CommittedSecond ==
    /\ lastCall.op = "endPath"
    /\ lastCall.acted
    /\ currentPath = Null
    /\ Len(paths) > 1

\* C13: extendPath with a path being drawn and a pick that misses leaves the
\* points of the current path unchanged, keeps the same current path, leaves
\* both lists unchanged and returns false.
C13_ExtendPathMissKeepsStroke ==
    [][(DrawingCall("extendPath") /\ ~lastCall'.hit)
         => /\ meshes'[currentPath].points = meshes[currentPath].points
            /\ meshes' = meshes
            /\ currentPath' = currentPath
            /\ paths' = paths
            /\ redoPaths' = redoPaths
            /\ ret' = "false"]_vars

C13_MissedWhileDrawing ==
    /\ lastCall.op = "extendPath"
    /\ ~lastCall.idle
    /\ ~lastCall.hit
    /\ ret = "false"
    /\ currentPath # Null
    /\ Len(meshes[currentPath].points) > 1

\* C14: extendPath called in Idle returns false, creates no path and leaves
\* both lists and every path unchanged.
C14_ExtendPathIdleReturnsFalse ==
    [][IdleCall("extendPath")
         => /\ ret' = "false"
            /\ meshes' = meshes
            /\ paths' = paths
            /\ redoPaths' = redoPaths
            /\ currentPath' = currentPath]_vars

\* C15: with a brush radius that is not positive, a startPath call in Idle
\* whose pick hits fails: it does not return true, creates no path, leaves
\* the canvas Idle and the undo list unchanged.
C15_NonPositiveRadiusFails ==
    [][(IdleCall("startPath") /\ lastCall'.hit /\ currentSize * sizeScaleFactor <= 0)
         => /\ ret' = "InvalidBrushParameter"
            /\ meshes' = meshes
            /\ currentPath' = Null
            /\ paths' = paths]_vars

C15_FailedWithHistory ==
    /\ lastCall.op = "startPath"
    /\ lastCall.idle
    /\ lastCall.hit
    /\ currentSize <= 0
    /\ ret = "InvalidBrushParameter"
    /\ currentPath = Null
    /\ Len(paths) > 0

\* C16: changeSize, changeColor and usePen change the brush settings only;
\* no call changes the radius or the material of a path already created, and
\* a new path gets the radius, and with the pen material the colour, that
\* are current at its startPath.
C16_SettingsOnlyForNewPaths ==
    [][/\ lastCall'.op \in {"changeSize", "changeColor", "usePen"}
            => /\ meshes' = meshes
               /\ paths' = paths
               /\ redoPaths' = redoPaths
               /\ currentPath' = currentPath
               /\ debug' = debug
       /\ \A id \in Created :
             /\ meshes'[id].options = meshes[id].options
             /\ meshes'[id].material = meshes[id].material
       /\ Len(meshes') > Len(meshes)
            => /\ Len(meshes') = Len(meshes) + 1
               /\ meshes'[Len(meshes')].options.radius = currentSize * sizeScaleFactor
               /\ ~debug => meshes'[Len(meshes')].material[2] = currentColor]_vars

C16_SettingsChangedAfterStrokes ==
    /\ lastCall.op \in {"changeSize", "changeColor"}
    /\ ~debug
    /\ \E id \in Created :
          /\ Held(id)
          /\ meshes[id].options.radius # currentSize * sizeScaleFactor
          /\ meshes[id].material[2] # currentColor

\* C17: undo with an empty undo list, redo with an empty redo list and clear
\* with an empty undo list end without an error and change neither list, nor
\* the current path, nor any path.
C17_EmptyListCallsAreNoOps ==
    [][(\/ lastCall'.op = "undo" /\ Len(paths) = 0
        \/ lastCall'.op = "redo" /\ Len(redoPaths) = 0
        \/ lastCall'.op = "clear" /\ Len(paths) = 0)
         => /\ ret' = "undefined"
            /\ paths' = paths
            /\ redoPaths' = redoPaths
            /\ currentPath' = currentPath
            /\ meshes' = meshes]_vars

C17_RedoWithNothingUndone ==
    /\ lastCall.op = "redo"
    /\ lastCall.idle
    /\ ~lastCall.acted
    /\ redoPaths = <<>>
    /\ Len(paths) > 0

\* C18: in every reachable state a disposed path is neither in the undo list
\* nor in the redo list nor the current path, and no call changes a path
\* (its points, its scene membership) once it is disposed.
C18_DisposedPathIsNeverUsed ==
    /\ [](\A id \in Created : meshes[id].disposed > 0 => ~Held(id))
    /\ [][\A id \in Created :
             meshes[id].disposed > 0 => meshes'[id] = meshes[id]]_vars

C18_CallsAfterClear ==
    /\ \E id \in Created : meshes[id].disposed > 0
    /\ lastCall.op = "undo"
    /\ lastCall.acted

\* C19: in every reachable state the current path and every path of the
\* undo list are in the scene and every path of the redo list is out of it;
\* undo and redo change no path's points.
C19_SceneFollowsLists ==
    /\ [](/\ currentPath # Null => meshes[currentPath].attached
          /\ \A i \in 1..Len(paths) : meshes[paths[i]].attached
          /\ \A i \in 1..Len(redoPaths) : ~meshes[redoPaths[i]].attached)
    /\ [][lastCall'.op \in {"undo", "redo"}
            => \A id \in Created :
                  /\ meshes'[id].points = meshes[id].points
                  /\ meshes'[id].options = meshes[id].options]_vars

C19_UndoneAndRedone ==
    /\ lastCall.op = "redo"
    /\ lastCall.acted
    /\ Len(redoPaths) > 0
    /\ Len(paths) > 0
    /\ Len(meshes[paths[Len(paths)]].points) > 1

\* C20: when every press of the pointer is followed by a release, the canvas
\* is Idle again and again, and every path that is started is eventually in
\* the undo list, whatever other events come in between: drawing always
\* ends, and a path stops being the current path only by being pushed at the
\* end of the undo list.
C20_EveryStrokeIsCommitted ==
    /\ []<>(currentPath = Null)
    /\ [][(currentPath # Null /\ currentPath' # currentPath)
            => /\ currentPath' = Null
               /\ IsPushOf(paths', paths, currentPath)]_vars

C20_ReleasedWithLastCall ==
    /\ lastCall.op = "endPath"
    /\ lastCall.acted
    /\ calls = MaxCalls
    /\ currentPath = Null
    /\ Len(paths) > 1

\* C21: extendPath returns true only when the current path accepted a new
\* point; when the pick hits but the sample is dropped by the debounce of the
\* path, extendPath does not return true.
C21_ExtendPathTrueOnlyWhenAccepted ==
    [][(DrawingCall("extendPath") /\ ret' = "true")
         => Len(meshes'[currentPath].points) = Len(meshes[currentPath].points) + 1]_vars

\* C22: a path is created with the debounce and roundness options
\* (debounce = 1, roundness = 8) if and only if the canvas was constructed in
\* debug mode; otherwise it is created with a radius option only; the debug
\* flag never changes.
C22_DebounceOnlyInDebug ==
    /\ [](\A id \in Created :
             IF debug
             THEN /\ DOMAIN meshes[id].options = {"radius", "debounce", "roundness"}
                  /\ meshes[id].options.debounce = 1
                  /\ meshes[id].options.roundness = 8
             ELSE DOMAIN meshes[id].options = {"radius"})
    /\ [][debug' = debug]_vars

C22_DebugStrokesCreated ==
    /\ debug
    /\ Len(meshes) > 1
    /\ lastCall.op = "startPath"
    /\ lastCall.acted
    /\ "debounce" \in DOMAIN meshes[currentPath].options

\* C23: whenever a path is being drawn the redo list is empty.
C23_NoRedoWhileDrawing ==
    currentPath # Null => redoPaths = <<>>

C23_DrawingAfterUndo ==
    /\ currentPath # Null
    /\ Len(paths) > 0
    /\ \E id \in Created : ~Held(id) /\ meshes[id].disposed = 0

\* C24: in every reachable state no path appears twice across the current
\* path, the undo list and the redo list, and undo and redo keep the set of
\* the paths of both lists together.
C24_NoPathTwice ==
    /\ [](/\ Cardinality(Range(paths) \cup Range(redoPaths)) = Len(paths) + Len(redoPaths)
          /\ currentPath # Null => currentPath \notin Range(paths) \cup Range(redoPaths))
    /\ [][lastCall'.op \in {"undo", "redo"}
            => Range(paths') \cup Range(redoPaths') = Range(paths) \cup Range(redoPaths)]_vars

C24_UndoneOneOfSeveral ==
    /\ lastCall.op = "redo"
    /\ lastCall.acted
    /\ Len(paths) > 0
    /\ Len(redoPaths) > 0

\* C25: with the page wiring every path is created with a radius of
\* size * 0.01 for a size of 1, 5 or 15 (1, 5 or 15 hundredths), hence a
\* strictly positive one, after any sequence of events.
C25_PageRadiusIsPositive ==
    \A id \in Created :
        /\ meshes[id].options.radius \in {1, 5, 15}
        /\ meshes[id].options.radius > 0

C25_EverySizeUsed ==
    {meshes[id].options.radius : id \in Created} = {1, 5, 15}

\* C26: getLastIndicesAndPositions ends without an error in every reachable
\* state of the canvas (before any path is committed, after the undo of the
\* only path, after clear) and never reads a disposed path.
C26_GetLastNeverFails ==
    [][lastCall'.op = "getLastIndicesAndPositions"
         => /\ ret' = "undefined"
            /\ firstPath # Null => meshes[firstPath].disposed = 0]_vars
====
